---- MODULE Spec2Model ----
(***************************************************************************)
(* Model of the two serverless handlers of physical-ai-textbook/api:       *)
(*   api/chat/handler.py    the Adapter Gateway (module initialisation and *)
(*                          the coroutine handle_request)                  *)
(*   api/health/handler.py  the Health Responder (handle_request)          *)
(*                                                                         *)
(* A Python str is a sequence of atoms; the atoms "\"" and "\\" are the    *)
(* two characters json.dumps has to escape, every other atom stands for a  *)
(* run of characters json.dumps copies unchanged.  A dict is the sequence  *)
(* of its (key, value) pairs in insertion order.  The module namespace of  *)
(* chat/handler.py is the function globals, whose domain is the set of     *)
(* names bound so far.                                                     *)
(***************************************************************************)
EXTENDS Integers, Sequences, FiniteSets, TLC

VARIABLES initpc, globals, init_exc, pc, req, wrapper_calls, outcome, result

vars == <<initpc, globals, init_exc, pc, req, wrapper_calls, outcome, result>>

(***************************************************************************)
(* Bounds of the model.                                                    *)
(***************************************************************************)
MaxInv == 2
MaxTextLen == 1

Slots == 1..MaxInv

Chars == {"a", "\"", "\\"}

Texts == UNION {[1..n -> Chars] : n \in 0..MaxTextLen}

Events == {"event1", "event2"}

Contexts == {"context1"}

(***************************************************************************)
(* Exceptions.  Python's "except Exception" catches the instances of the   *)
(* subclasses of Exception; SystemExit, KeyboardInterrupt and              *)
(* asyncio.CancelledError derive from BaseException only.                  *)
(***************************************************************************)
ExceptionSubclasses == {"ImportError", "RuntimeError"}

BaseExceptionOnly == {"SystemExit", "CancelledError"}

\* what the statements of the try block of lines 19-25 can raise
InitRaisable == [cls : {"ImportError", "SystemExit"}, text : Texts]

\* what the await of line 51 can raise
ForwardRaisable == [cls : {"RuntimeError", "CancelledError"}, text : Texts]

str(e) == e.text

except_ImportError(e) == e.cls = "ImportError"

\* "except Exception as e" (chat/handler.py lines 26 and 53)
except_Exception(e) == e.cls \in ExceptionSubclasses

(***************************************************************************)
(* json.dumps of a dict of str keys and str values, with the default       *)
(* separators ", " and ": ".                                               *)
(***************************************************************************)
EscapeChar(c) ==
    IF c = "\"" THEN <<"\\", "\"">>
    ELSE IF c = "\\" THEN <<"\\", "\\">>
    ELSE <<c>>

RECURSIVE encode_basestring(_)
encode_basestring(s) ==
    IF s = <<>> THEN <<>> ELSE EscapeChar(Head(s)) \o encode_basestring(Tail(s))

dumps_str_raw(s) == <<"\"">> \o s \o <<"\"">>

dumps_str(s) == <<"\"">> \o encode_basestring(s) \o <<"\"">>

RECURSIVE dumps_items(_)
dumps_items(d) ==
    IF d = <<>> THEN <<>>
    ELSE dumps_str(d[1][1]) \o <<": ">> \o dumps_str(d[1][2])
         \o (IF Len(d) > 1 THEN <<", ">> \o dumps_items(Tail(d)) ELSE <<>>)

json_dumps(d) == <<"{">> \o dumps_items(d) \o <<"}">>

(***************************************************************************)
(* json.loads, the decoder a caller applies to a body: an object of        *)
(* string members, as a function from keys to values.                      *)
(***************************************************************************)
NoParse == [ok |-> FALSE, val |-> <<>>, next |-> 0]

RECURSIVE scan_string(_, _, _)
scan_string(s, i, acc) ==
    IF i > Len(s) THEN NoParse
    ELSE IF s[i] = "\"" THEN [ok |-> TRUE, val |-> acc, next |-> i + 1]
    ELSE IF s[i] = "\\"
         THEN IF i + 1 <= Len(s) /\ s[i + 1] \in {"\"", "\\"}
              THEN scan_string(s, i + 2, Append(acc, s[i + 1]))
              ELSE NoParse
    ELSE scan_string(s, i + 1, Append(acc, s[i]))

parse_string(s, i) ==
    IF i <= Len(s) /\ s[i] = "\"" THEN scan_string(s, i + 1, <<>>) ELSE NoParse

Only(S) == CHOOSE x \in S : TRUE

RECURSIVE parse_members(_, _, _)
parse_members(s, i, acc) ==
    Only({ IF ~k.ok \/ k.next > Len(s) THEN NoParse
           ELSE IF s[k.next] # ": " THEN NoParse
           ELSE Only({ IF ~v.ok \/ v.next > Len(s) THEN NoParse
                       ELSE IF s[v.next] = "}"
                            THEN IF v.next = Len(s)
                                 THEN [ok |-> TRUE, val |-> (k.val :> v.val) @@ acc,
                                       next |-> v.next + 1]
                                 ELSE NoParse
                       ELSE IF s[v.next] = ", "
                            THEN parse_members(s, v.next + 1, (k.val :> v.val) @@ acc)
                       ELSE NoParse
                       : v \in {parse_string(s, k.next + 1)} })
           : k \in {parse_string(s, i)} })

json_loads(s) ==
    IF Len(s) < 2 \/ s[1] # "{" THEN NoParse
    ELSE IF s[2] = "}"
         THEN IF Len(s) = 2 THEN [ok |-> TRUE, val |-> <<>>, next |-> 3] ELSE NoParse
    ELSE parse_members(s, 2, <<>>)

(***************************************************************************)
(* The responses the handlers build.                                       *)
(***************************************************************************)
HealthHeaders ==
    [x \in {"Content-Type", "Access-Control-Allow-Origin",
            "Access-Control-Allow-Methods", "Access-Control-Allow-Headers"} |->
        CASE x = "Content-Type" -> "application/json"
          [] x = "Access-Control-Allow-Origin" -> "*"
          [] x = "Access-Control-Allow-Methods" -> "GET, OPTIONS"
          [] x = "Access-Control-Allow-Headers" -> "Content-Type"]

HealthPayload ==
    << << <<"status">>, <<"ok">> >>,
       << <<"message">>, <<"Physical AI Chatbot Backend is active!">> >>,
       << <<"version">>, <<"1.0">> >> >>

HealthResponseEcho(event, context) ==
    [statusCode |-> 200, headers |-> HealthHeaders,
     body |-> json_dumps(HealthPayload \o << << <<"event">>, <<event>> >> >>)]

\* health/handler.py handle_request: the returned dict
HealthResponse(event, context) ==
    [statusCode |-> 200, headers |-> HealthHeaders, body |-> json_dumps(HealthPayload)]

ErrorHeadersNoCors == [x \in {"Content-Type"} |-> "application/json"]

\* chat/handler.py lines 39-42 and 57-60
ErrorHeaders ==
    [x \in {"Content-Type", "Access-Control-Allow-Origin"} |->
        IF x = "Content-Type" THEN "application/json" ELSE "*"]

ErrorPayload(error, details) ==
    << << <<"error">>, error >>, << <<"details">>, details >> >>

UnavailableResponseRaw(error_message) ==
    [statusCode |-> 500, headers |-> ErrorHeaders,
     body |-> <<"{">> \o dumps_str(<<"error">>) \o <<": ">>
              \o dumps_str(<<"Backend initialization failed">>) \o <<", ">>
              \o dumps_str(<<"details">>) \o <<": ">>
              \o dumps_str_raw(error_message) \o <<"}">>]

\* chat/handler.py lines 37-47
UnavailableResponse(error_message) ==
    [statusCode |-> 500, headers |-> ErrorHeaders,
     body |-> json_dumps(ErrorPayload(<<"Backend initialization failed">>, error_message))]

InternalErrorResponseRepr(e) ==
    [statusCode |-> 500, headers |-> ErrorHeaders,
     body |-> json_dumps(ErrorPayload(<<"Internal server error">>, <<e.cls>> \o str(e)))]

\* chat/handler.py lines 55-65
InternalErrorResponse(e) ==
    [statusCode |-> 500, headers |-> ErrorHeaders,
     body |-> json_dumps(ErrorPayload(<<"Internal server error">>, str(e)))]

(***************************************************************************)
(* The collaborators: what the translation wrapper can answer.  Mangum     *)
(* answers a dict of statusCode, headers, body and isBase64Encoded, with   *)
(* the headers the wrapped application set.                                *)
(***************************************************************************)
Mangum(app, lifespan) == [app |-> app, lifespan |-> lifespan]

WrapperResponses ==
    { [statusCode |-> 200,
       headers |-> [x \in {"content-type"} |-> "application/json"],
       body |-> <<"a">>, isBase64Encoded |-> FALSE],
      [statusCode |-> 200,
       headers |-> [x \in {"content-type", "Access-Control-Allow-Origin"} |->
                      IF x = "content-type" THEN "application/json" ELSE "*"],
       body |-> <<"a">>, isBase64Encoded |-> FALSE],
      [statusCode |-> 404,
       headers |-> [x \in {"Access-Control-Allow-Origin"} |-> "https://example.org"],
       body |-> <<>>, isBase64Encoded |-> FALSE] }

NoRequest == [route |-> "none", event |-> "none", context |-> "none"]

Returned(v) == <<[kind |-> "return", value |-> v]>>

Raised(e) == <<[kind |-> "raise", exc |-> e]>>

(***************************************************************************)
(* Reading the module namespace of chat/handler.py.                        *)
(***************************************************************************)
Bound(name) == name \in DOMAIN globals

Bind(name, value) == (name :> value) @@ globals

HANDLER_AVAILABLE == globals["HANDLER_AVAILABLE"]

error_message == globals["error_message"]

handler == globals["handler"]

TypeOK ==
    /\ initpc \in {"import_app", "import_mangum", "construct", "done", "crashed"}
    /\ DOMAIN globals \subseteq
           {"fastapi_app", "Mangum", "handler", "HANDLER_AVAILABLE", "error_message"}
    /\ Len(init_exc) <= 1
    /\ pc \in [Slots -> {"idle", "awaiting", "returned", "propagated"}]
    /\ \A i \in Slots : Len(outcome[i]) <= 1 /\ Len(result[i]) <= 1

Init ==
    /\ initpc = "import_app"
    /\ globals = <<>>
    /\ init_exc = <<>>
    /\ pc = [i \in Slots |-> "idle"]
    /\ req = [i \in Slots |-> NoRequest]
    /\ wrapper_calls = [i \in Slots |-> <<>>]
    /\ outcome = [i \in Slots |-> <<>>]
    /\ result = [i \in Slots |-> <<>>]

invocations == <<pc, req, wrapper_calls, outcome, result>>

(***************************************************************************)
(* Module initialisation of chat/handler.py, lines 19-29.                  *)
(***************************************************************************)
\* line 20: from index import app as fastapi_app
ImportApp ==
    /\ initpc = "import_app"
    /\ globals' = Bind("fastapi_app", "index.app")
    /\ initpc' = "import_mangum"
    /\ UNCHANGED <<init_exc, invocations>>

\* line 21: from mangum import Mangum
ImportMangum ==
    /\ initpc = "import_mangum"
    /\ globals' = Bind("Mangum", "mangum.Mangum")
    /\ initpc' = "construct"
    /\ UNCHANGED <<init_exc, invocations>>

ConstructWrapperLifespanAuto ==
    /\ initpc = "construct"
    /\ globals' = ("HANDLER_AVAILABLE" :> TRUE)
                  @@ ("handler" :> Mangum(globals["fastapi_app"], "auto")) @@ globals
    /\ initpc' = "done"
    /\ UNCHANGED <<init_exc, invocations>>

\* lines 24-25: handler = Mangum(fastapi_app, lifespan="off"); HANDLER_AVAILABLE = True
ConstructWrapper ==
    /\ initpc = "construct"
    /\ globals' = ("HANDLER_AVAILABLE" :> TRUE)
                  @@ ("handler" :> Mangum(globals["fastapi_app"], "off")) @@ globals
    /\ initpc' = "done"
    /\ UNCHANGED <<init_exc, invocations>>

\* lines 26-29: one of the three statements of the try block raises e
InitRaises(e) ==
    /\ initpc \in {"import_app", "import_mangum", "construct"}
    /\ init_exc' = <<e>>
    /\ IF except_Exception(e)
       THEN /\ globals' = ("HANDLER_AVAILABLE" :> FALSE)
                          @@ ("error_message" :> str(e)) @@ globals
            /\ initpc' = "done"
       ELSE /\ globals' = globals
            /\ initpc' = "crashed"
    /\ UNCHANGED invocations

(***************************************************************************)
(* chat/handler.py handle_request, lines 32-65.  The coroutine runs from   *)
(* its call to the await of line 51, and from the resumption of that await *)
(* to its return.                                                          *)
(***************************************************************************)
\* lines 36-51: the degraded-state check, then the call of the wrapper
chat_handle_request(i, event, context) ==
    /\ initpc = "done"
    /\ pc[i] = "idle"
    /\ req' = [req EXCEPT ![i] = [route |-> "chat", event |-> event, context |-> context]]
    /\ IF ~HANDLER_AVAILABLE
       THEN /\ result' = [result EXCEPT ![i] = Returned(UnavailableResponse(error_message))]
            /\ pc' = [pc EXCEPT ![i] = "returned"]
            /\ UNCHANGED wrapper_calls
       ELSE /\ wrapper_calls' = [wrapper_calls EXCEPT
                                    ![i] = Append(@, <<handler, event, context>>)]
            /\ pc' = [pc EXCEPT ![i] = "awaiting"]
            /\ UNCHANGED result
    /\ UNCHANGED <<initpc, globals, init_exc, outcome>>

forward_returns_cors(i, response) ==
    /\ pc[i] = "awaiting"
    /\ outcome' = [outcome EXCEPT ![i] = Returned(response)]
    /\ result' = [result EXCEPT ![i] = Returned(
           [response EXCEPT !.headers = ("Access-Control-Allow-Origin" :> "*") @@ @])]
    /\ pc' = [pc EXCEPT ![i] = "returned"]
    /\ UNCHANGED <<initpc, globals, init_exc, req, wrapper_calls>>

forward_returns_shared(i, response) ==
    /\ pc[i] = "awaiting"
    /\ outcome' = [outcome EXCEPT ![i] = Returned(response)]
    /\ LET others == {j \in Slots \ {i} : outcome[j] # <<>> /\ outcome[j][1].kind = "return"}
       IN result' = [result EXCEPT ![i] =
                        IF others # {} THEN outcome[CHOOSE j \in others : TRUE]
                        ELSE Returned(response)]
    /\ pc' = [pc EXCEPT ![i] = "returned"]
    /\ UNCHANGED <<initpc, globals, init_exc, req, wrapper_calls>>

\* lines 51-52: the await yields response; return response
forward_returns(i, response) ==
    /\ pc[i] = "awaiting"
    /\ outcome' = [outcome EXCEPT ![i] = Returned(response)]
    /\ result' = [result EXCEPT ![i] = Returned(response)]
    /\ pc' = [pc EXCEPT ![i] = "returned"]
    /\ UNCHANGED <<initpc, globals, init_exc, req, wrapper_calls>>

forward_raises_degrades(i, e) ==
    /\ pc[i] = "awaiting"
    /\ outcome' = [outcome EXCEPT ![i] = Raised(e)]
    /\ IF except_Exception(e)
       THEN /\ result' = [result EXCEPT ![i] = Returned(InternalErrorResponse(e))]
            /\ pc' = [pc EXCEPT ![i] = "returned"]
            /\ globals' = ("HANDLER_AVAILABLE" :> FALSE)
                          @@ ("error_message" :> str(e)) @@ globals
       ELSE /\ result' = [result EXCEPT ![i] = Raised(e)]
            /\ pc' = [pc EXCEPT ![i] = "propagated"]
            /\ globals' = globals
    /\ UNCHANGED <<initpc, init_exc, req, wrapper_calls>>

forward_raises_retry(i, e) ==
    /\ pc[i] = "awaiting"
    /\ IF except_Exception(e) /\ Len(wrapper_calls[i]) < 2
       THEN /\ wrapper_calls' = [wrapper_calls EXCEPT
                                    ![i] = Append(@, <<handler, req[i].event, req[i].context>>)]
            /\ UNCHANGED <<outcome, result, pc>>
       ELSE /\ outcome' = [outcome EXCEPT ![i] = Raised(e)]
            /\ IF except_Exception(e)
               THEN /\ result' = [result EXCEPT ![i] = Returned(InternalErrorResponse(e))]
                    /\ pc' = [pc EXCEPT ![i] = "returned"]
               ELSE /\ result' = [result EXCEPT ![i] = Raised(e)]
                    /\ pc' = [pc EXCEPT ![i] = "propagated"]
            /\ UNCHANGED wrapper_calls
    /\ UNCHANGED <<initpc, globals, init_exc, req>>

\* lines 51, 53-65: the await raises e
forward_raises(i, e) ==
    /\ pc[i] = "awaiting"
    /\ outcome' = [outcome EXCEPT ![i] = Raised(e)]
    /\ IF except_Exception(e)
       THEN /\ result' = [result EXCEPT ![i] = Returned(InternalErrorResponse(e))]
            /\ pc' = [pc EXCEPT ![i] = "returned"]
       ELSE /\ result' = [result EXCEPT ![i] = Raised(e)]
            /\ pc' = [pc EXCEPT ![i] = "propagated"]
    /\ UNCHANGED <<initpc, globals, init_exc, req, wrapper_calls>>

(***************************************************************************)
(* health/handler.py handle_request, lines 10-27.                          *)
(***************************************************************************)
health_handle_request(i, event, context) ==
    /\ pc[i] = "idle"
    /\ req' = [req EXCEPT ![i] = [route |-> "health", event |-> event, context |-> context]]
    /\ result' = [result EXCEPT ![i] = Returned(HealthResponse(event, context))]
    /\ pc' = [pc EXCEPT ![i] = "returned"]
    /\ UNCHANGED <<initpc, globals, init_exc, wrapper_calls, outcome>>

(***************************************************************************)
(* The platform takes the outcome of a finished invocation; the event and  *)
(* the response are discarded and the slot serves the next invocation.     *)
(***************************************************************************)
Deliver(i) ==
    /\ pc[i] \in {"returned", "propagated"}
    /\ pc' = [pc EXCEPT ![i] = "idle"]
    /\ req' = [req EXCEPT ![i] = NoRequest]
    /\ wrapper_calls' = [wrapper_calls EXCEPT ![i] = <<>>]
    /\ outcome' = [outcome EXCEPT ![i] = <<>>]
    /\ result' = [result EXCEPT ![i] = <<>>]
    /\ UNCHANGED <<initpc, globals, init_exc>>

Next ==
    \/ ImportApp
    \/ ImportMangum
    \/ ConstructWrapper
    \/ \E e \in InitRaisable : InitRaises(e)
    \/ \E i \in Slots, event \in Events, context \in Contexts :
           chat_handle_request(i, event, context)
    \/ \E i \in Slots, response \in WrapperResponses : forward_returns(i, response)
    \/ \E i \in Slots, e \in ForwardRaisable : forward_raises(i, e)
    \/ \E i \in Slots, event \in Events, context \in Contexts :
           health_handle_request(i, event, context)
    \/ \E i \in Slots : Deliver(i)

Spec == Init /\ [][Next]_vars

(***************************************************************************)
(* Vocabulary of the properties.                                           *)
(***************************************************************************)
Chat(i) == req[i].route = "chat"

Health(i) == req[i].route = "health"

Available == initpc = "done" /\ Bound("HANDLER_AVAILABLE") /\ HANDLER_AVAILABLE

Unavailable == initpc = "done" /\ Bound("HANDLER_AVAILABLE") /\ ~HANDLER_AVAILABLE

Value(i) == result[i][1].value

ForwardReturned(i) == outcome[i] # <<>> /\ outcome[i][1].kind = "return"

ForwardRaised(i) == outcome[i] # <<>> /\ outcome[i][1].kind = "raise"

ForwardRaisedException(i) ==
    ForwardRaised(i) /\ outcome[i][1].exc.cls \in ExceptionSubclasses

HasHeader(r, name, value) == name \in DOMAIN r.headers /\ r.headers[name] = value

HasCors(r) == HasHeader(r, "Access-Control-Allow-Origin", "*")

IsJsonError(r) == HasHeader(r, "Content-Type", "application/json") /\ HasCors(r)

Decodes(body, d) == json_loads(body).ok /\ json_loads(body).val = d

ErrorObject(error, details) == (<<"error">> :> error) @@ (<<"details">> :> details)

HealthObject ==
    (<<"status">> :> <<"ok">>)
    @@ (<<"message">> :> <<"Physical AI Chatbot Backend is active!">>)
    @@ (<<"version">> :> <<"1.0">>)

IsInvocationResponse(r) ==
    /\ {"statusCode", "headers", "body"} \subseteq DOMAIN r
    /\ r.statusCode \in 100..599
    /\ \A h \in DOMAIN r.headers : h \in STRING /\ r.headers[h] \in STRING
    /\ DOMAIN r.body = 1..Len(r.body)
    /\ \A k \in DOMAIN r.body : r.body[k] \in STRING

(***************************************************************************)
(* C1: when the gateway is Available and the awaited wrapper call returns  *)
(* a response, handle_request returns that response, field for field,     *)
(* with nothing added or removed.                                          *)
(***************************************************************************)
C1_ForwardedVerbatim ==
    \A i \in Slots :
        Chat(i) /\ ForwardReturned(i) =>
            /\ Available
            /\ pc[i] = "returned"
            /\ result[i] = outcome[i]
            /\ Value(i).headers = outcome[i][1].value.headers

C1_Witness ==
    \E i \in Slots :
        /\ Chat(i) /\ ForwardReturned(i) /\ pc[i] = "returned"
        /\ ~HasCors(outcome[i][1].value)
        /\ Value(i).statusCode = 200

(***************************************************************************)
(* C2, as stated: every response either handler returns, on every path,   *)
(* carries Access-Control-Allow-Origin: *.                                 *)
(***************************************************************************)
C2_EveryResponseHasCors ==
    \A i \in Slots : pc[i] = "returned" => HasCors(Value(i))

(***************************************************************************)
(* C2, amended: every response a handler builds itself (health, chat      *)
(* Unavailable, chat forwarding exception) carries                         *)
(* Access-Control-Allow-Origin: *; a forwarded response carries the        *)
(* header exactly when the wrapper's response does.                        *)
(***************************************************************************)
C2_LocalResponsesHaveCors ==
    \A i \in Slots :
        pc[i] = "returned" =>
            IF Chat(i) /\ ForwardReturned(i)
            THEN HasCors(Value(i)) <=> HasCors(outcome[i][1].value)
            ELSE HasCors(Value(i))

C2_Witness ==
    \E i, j \in Slots :
        /\ Health(i) /\ pc[i] = "returned"
        /\ Chat(j) /\ pc[j] = "returned" /\ ForwardRaisedException(j)

(***************************************************************************)
(* C3, as stated: every invocation of the chat handle_request that has    *)
(* finished has returned a value of the Invocation Response shape; no     *)
(* failure of any kind has propagated to the caller.                       *)
(***************************************************************************)
C3_NothingPropagates ==
    \A i \in Slots :
        Chat(i) /\ pc[i] \in {"returned", "propagated"} =>
            pc[i] = "returned" /\ IsInvocationResponse(Value(i))

(***************************************************************************)
(* C3, amended: a finished chat invocation has returned a value of the    *)
(* Invocation Response shape unless the wrapper raised an exception that   *)
(* is not an instance of Exception (SystemExit, KeyboardInterrupt,         *)
(* CancelledError); such an exception, and no other, propagates to the     *)
(* caller.                                                                 *)
(***************************************************************************)
C3_OnlyBaseExceptionsPropagate ==
    \A i \in Slots :
        Chat(i) =>
            /\ pc[i] = "returned" => IsInvocationResponse(Value(i))
            /\ pc[i] = "propagated" =>
                   /\ ForwardRaised(i)
                   /\ outcome[i][1].exc.cls \in BaseExceptionOnly
                   /\ result[i] = outcome[i]
            /\ ForwardRaisedException(i) => pc[i] = "returned"
            /\ ForwardReturned(i) => pc[i] = "returned"

C3_Witness ==
    \E i, j \in Slots :
        /\ Chat(i) /\ pc[i] = "returned" /\ ForwardRaisedException(i)
        /\ outcome[i][1].exc.cls = "RuntimeError"
        /\ Chat(j) /\ pc[j] = "propagated"

(***************************************************************************)
(* C4: once initialisation has failed, every chat invocation returns 500  *)
(* with Content-Type: application/json and Access-Control-Allow-Origin: *, *)
(* and a body decoding to {error: "Backend initialization failed",         *)
(* details: the text of the exception caught at initialisation}, whatever  *)
(* the event and however many invocations came before.                     *)
(***************************************************************************)
C4_DegradedReply ==
    Unavailable =>
        \A i \in Slots :
            Chat(i) =>
                /\ pc[i] = "returned"
                /\ Value(i).statusCode = 500
                /\ IsJsonError(Value(i))
                /\ init_exc # <<>>
                /\ Decodes(Value(i).body,
                           ErrorObject(<<"Backend initialization failed">>,
                                       str(init_exc[1])))

C4_Witness ==
    /\ Unavailable
    /\ init_exc # <<>> /\ str(init_exc[1]) = <<"\"">>
    /\ \E i, j \in Slots :
           /\ i # j
           /\ Chat(i) /\ pc[i] = "returned" /\ Chat(j) /\ pc[j] = "returned"
           /\ req[i].event # req[j].event

InternalErrorReply(i) ==
    /\ pc[i] = "returned"
    /\ Value(i).statusCode = 500
    /\ IsJsonError(Value(i))
    /\ Decodes(Value(i).body,
               ErrorObject(<<"Internal server error">>, str(outcome[i][1].exc)))

NextCallForwards ==
    /\ Available
    /\ Bound("handler") /\ handler = Mangum("index.app", "off")
    /\ \A j \in Slots, event \in Events, context \in Contexts :
           pc[j] = "idle" =>
               ENABLED (chat_handle_request(j, event, context) /\ pc'[j] = "awaiting")

(***************************************************************************)
(* C5, as stated: in the Available state, whenever the forwarding call    *)
(* raises, handle_request returns 500 with the two headers and a body     *)
(* decoding to {error: "Internal server error", details: the text of the  *)
(* exception}, and the gateway stays Available for the next call.          *)
(***************************************************************************)
C5_EveryRaiseAnswered500 ==
    \A i \in Slots :
        Chat(i) /\ ForwardRaised(i) => InternalErrorReply(i) /\ NextCallForwards

(***************************************************************************)
(* C5, amended: in the Available state, whenever the forwarding call      *)
(* raises an instance of Exception, handle_request returns 500 with       *)
(* Content-Type: application/json and Access-Control-Allow-Origin: *, and  *)
(* a body decoding to {error: "Internal server error", details: the text  *)
(* of the exception}; the gateway is still Available with its wrapper      *)
(* bound, and a next call is accepted and forwarded.                       *)
(***************************************************************************)
C5_ExceptionAnswered500 ==
    \A i \in Slots :
        Chat(i) /\ ForwardRaisedException(i) => InternalErrorReply(i) /\ NextCallForwards

C5_Witness ==
    \E i, j \in Slots :
        /\ Chat(i) /\ ForwardRaisedException(i) /\ pc[i] = "returned"
        /\ str(outcome[i][1].exc) = <<"\\">>
        /\ Chat(j) /\ pc[j] = "awaiting"

(***************************************************************************)
(* C6, as stated: initialisation never crashes the process; any failure   *)
(* of any of its three steps ends in Unavailable with the text recorded.   *)
(***************************************************************************)
C6_InitNeverCrashes ==
    /\ initpc # "crashed"
    /\ init_exc # <<>> =>
           Unavailable /\ Bound("error_message") /\ error_message = str(init_exc[1])

(***************************************************************************)
(* C6, amended: initialisation ends in exactly one of Available (all      *)
(* three steps succeeded, the wrapper bound and built with lifespan off)   *)
(* and Unavailable (a step raised an instance of Exception, whose text is  *)
(* recorded), unless a step raises an exception that is not an instance    *)
(* of Exception, which leaves the module unloaded.                         *)
(***************************************************************************)
C6_InitOutcome ==
    /\ initpc = "done" =>
           /\ Bound("HANDLER_AVAILABLE")
           /\ Available =>
                  /\ init_exc = <<>>
                  /\ {"fastapi_app", "Mangum", "handler"} \subseteq DOMAIN globals
                  /\ handler = Mangum("index.app", "off")
                  /\ ~Bound("error_message")
           /\ Unavailable =>
                  /\ init_exc # <<>>
                  /\ init_exc[1].cls \in ExceptionSubclasses
                  /\ Bound("error_message")
                  /\ error_message = str(init_exc[1])
                  /\ ~Bound("handler")
    /\ init_exc # <<>> /\ init_exc[1].cls \in ExceptionSubclasses => Unavailable
    /\ initpc = "crashed" =>
           /\ init_exc # <<>> /\ init_exc[1].cls \in BaseExceptionOnly
           /\ ~Bound("HANDLER_AVAILABLE")
    /\ initpc \notin {"done", "crashed"} => init_exc = <<>> /\ ~Bound("HANDLER_AVAILABLE")

C6_Witness ==
    /\ Unavailable
    /\ Bound("Mangum")
    /\ init_exc # <<>> /\ str(init_exc[1]) # <<>>

C6_WitnessAvailable == Available /\ \E i \in Slots : Chat(i) /\ pc[i] = "awaiting"

HealthReply(i) ==
    /\ pc[i] = "returned"
    /\ result[i][1].kind = "return"
    /\ Value(i).statusCode = 200
    /\ Decodes(Value(i).body, HealthObject)
    /\ HasHeader(Value(i), "Content-Type", "application/json")
    /\ HasCors(Value(i))
    /\ HasHeader(Value(i), "Access-Control-Allow-Methods", "GET, OPTIONS")
    /\ HasHeader(Value(i), "Access-Control-Allow-Headers", "Content-Type")
    /\ wrapper_calls[i] = <<>> /\ outcome[i] = <<>>

HealthStep(i) == pc[i] = "idle" /\ req'[i].route = "health"

HealthStepFrame(i) ==
    /\ UNCHANGED <<initpc, globals, init_exc>>
    /\ \A j \in Slots \ {i} :
           /\ pc'[j] = pc[j] /\ req'[j] = req[j] /\ result'[j] = result[j]
           /\ wrapper_calls'[j] = wrapper_calls[j] /\ outcome'[j] = outcome[j]

(***************************************************************************)
(* C7: the health handle_request returns, for every event and context,    *)
(* status 200, a body decoding to {"status": "ok", "message": "Physical   *)
(* AI Chatbot Backend is active!", "version": "1.0"} and the four          *)
(* headers; it has no other outcome, and a call changes nothing but the    *)
(* invocation it serves.                                                   *)
(***************************************************************************)
C7_HealthFixed ==
    [][\A i \in Slots :
          /\ Health(i)' => HealthReply(i)'
          /\ HealthStep(i) => Health(i)' /\ HealthStepFrame(i)]_vars

C7_Witness ==
    \E i, j \in Slots :
        /\ Health(i) /\ pc[i] = "returned" /\ Health(j) /\ pc[j] = "returned"
        /\ req[i].event # req[j].event
        /\ Value(i) = Value(j)

(***************************************************************************)
(* C8: once initialisation has finished, no step of any invocation        *)
(* changes the module namespace: the Available/Unavailable flag, the       *)
(* captured error text and the wrapper stay what initialisation made them. *)
(***************************************************************************)
C8_FlagFrozen ==
    [][Bound("HANDLER_AVAILABLE") =>
          /\ initpc = "done" /\ initpc' = "done"
          /\ globals' = globals
          /\ init_exc' = init_exc]_vars

C8_Witness ==
    \E i, j \in Slots :
        /\ Chat(i) /\ pc[i] = "returned" /\ ForwardRaisedException(i)
        /\ Chat(j) /\ pc[j] = "returned" /\ ForwardReturned(j)

C8_WitnessUnavailable ==
    Unavailable /\ \E i \in Slots : Chat(i) /\ pc[i] = "returned"

C10_NoRetry ==
    \A i \in Slots :
        Chat(i) =>
            /\ Unavailable => Len(wrapper_calls[i]) = 0
            /\ Available => Len(wrapper_calls[i]) = 1
            /\ ForwardRaised(i) =>
                   pc[i] \in {"returned", "propagated"} /\ Len(wrapper_calls[i]) = 1

C10_Witness ==
    \E i \in Slots :
        /\ Chat(i) /\ ForwardRaisedException(i) /\ pc[i] = "returned"
        /\ Len(wrapper_calls[i]) = 1
        /\ Value(i).statusCode = 500

C10_WitnessUnavailable ==
    Unavailable /\ \E i \in Slots : Chat(i) /\ pc[i] = "returned" /\ wrapper_calls[i] = <<>>

====
